---- MODULE Spec2Model ----
(***************************************************************************)
(* Bulk Volatility Scanner (bulk_vol.py): descriptor resolution of the     *)
(* memory images, expansion of the plugin list into tasks, and the         *)
(* scheduling loop of main with its worker processes.                      *)
(*                                                                         *)
(* A Python str or bytes value is a sequence of one-character strings;     *)
(* None and the empty string, which the program only tests for truth, are  *)
(* both the empty sequence.                                                *)
(***************************************************************************)
EXTENDS Integers, Sequences, FiniteSets, TLC

VARIABLES
  profile,          \* args.profile
  kdbg,             \* args.kdbg
  plugins_list,     \* args.readlist: [supplied, lines], the lines of the file
  extract_artifacts,\* args.extract_artifacts
  image_files,      \* args.image_files
  images,           \* main: the MemoryImage objects constructed so far
  imageinfo_calls,  \* per image_files index, number of imageinfo invocations
  dirs,             \* directories that exist under the output root
  files,            \* paths of the files written so far
  reports,          \* per image_files index, the bytes written to its imageinfo report
  tasks,            \* main: pending tasks
  workers,          \* main: active workers
  idx,              \* main: index of the enumerate() of the poll pass under
                    \* way, 0 when there is none
  pc,               \* position of the main process
  exit_status,      \* exit status of the main process, -1 while it runs
  interrupted,      \* a KeyboardInterrupt was delivered to the main process
  popped,           \* history: ids of the tasks removed by tasks.pop()
  started,          \* history: ids of the tasks whose process was started
  executed,         \* history: ids of the tasks whose execute_task ran
  exited_before_pass, \* history: ids of the active workers whose process had
                    \* exited when the poll pass under way began, empty
                    \* when no pass is under way
  hung              \* ids of the tasks whose command never returns

vars == <<profile, kdbg, plugins_list, extract_artifacts, image_files, images,
          imageinfo_calls, dirs, files, reports, tasks, workers, idx, pc,
          exit_status, interrupted, popped, started, executed,
          exited_before_pass, hung>>

----------------------------------------------------------------------------
(* Bounds of the model *)

MaxImages == 2
MaxTasks == 7
MaxLiveTasks == 7
MaxHangTasks == 7

----------------------------------------------------------------------------
(* Module constants of bulk_vol.py *)

DUMP_DIR_FLAG == <<"-","-","d","u","m","p","-","d","i","r","=">>

SUPPORTED_PROFILES ==
  { <<"V","i","s","t","a","S","P","0","x","6","4">>,
    <<"V","i","s","t","a","S","P","0","x","8","6">>,
    <<"V","i","s","t","a","S","P","1","x","6","4">>,
    <<"V","i","s","t","a","S","P","1","x","8","6">>,
    <<"V","i","s","t","a","S","P","2","x","6","4">>,
    <<"V","i","s","t","a","S","P","2","x","8","6">>,
    <<"W","i","n","1","0","x","6","4">>,
    <<"W","i","n","1","0","x","6","4","_","1","0","2","4","0","_","1","7","7","7","0">>,
    <<"W","i","n","1","0","x","6","4","_","1","0","5","8","6">>,
    <<"W","i","n","1","0","x","6","4","_","1","4","3","9","3">>,
    <<"W","i","n","1","0","x","6","4","_","1","5","0","6","3">>,
    <<"W","i","n","1","0","x","6","4","_","1","6","2","9","9">>,
    <<"W","i","n","1","0","x","6","4","_","1","7","1","3","4">>,
    <<"W","i","n","1","0","x","6","4","_","1","7","7","6","3">>,
    <<"W","i","n","1","0","x","6","4","_","1","8","3","6","2">>,
    <<"W","i","n","1","0","x","6","4","_","1","9","0","4","1">>,
    <<"W","i","n","1","0","x","8","6">>,
    <<"W","i","n","1","0","x","8","6","_","1","0","2","4","0","_","1","7","7","7","0">>,
    <<"W","i","n","1","0","x","8","6","_","1","0","5","8","6">>,
    <<"W","i","n","1","0","x","8","6","_","1","4","3","9","3">>,
    <<"W","i","n","1","0","x","8","6","_","1","5","0","6","3">>,
    <<"W","i","n","1","0","x","8","6","_","1","6","2","9","9">>,
    <<"W","i","n","1","0","x","8","6","_","1","7","1","3","4">>,
    <<"W","i","n","1","0","x","8","6","_","1","7","7","6","3">>,
    <<"W","i","n","1","0","x","8","6","_","1","8","3","6","2">>,
    <<"W","i","n","1","0","x","8","6","_","1","9","0","4","1">>,
    <<"W","i","n","2","0","0","3","S","P","0","x","8","6">>,
    <<"W","i","n","2","0","0","3","S","P","1","x","6","4">>,
    <<"W","i","n","2","0","0","3","S","P","1","x","8","6">>,
    <<"W","i","n","2","0","0","3","S","P","2","x","6","4">>,
    <<"W","i","n","2","0","0","3","S","P","2","x","8","6">>,
    <<"W","i","n","2","0","0","8","R","2","S","P","0","x","6","4">>,
    <<"W","i","n","2","0","0","8","R","2","S","P","1","x","6","4">>,
    <<"W","i","n","2","0","0","8","R","2","S","P","1","x","6","4","_","2","3","4","1","8">>,
    <<"W","i","n","2","0","0","8","R","2","S","P","1","x","6","4","_","2","4","0","0","0">>,
    <<"W","i","n","2","0","0","8","S","P","1","x","6","4">>,
    <<"W","i","n","2","0","0","8","S","P","1","x","8","6">>,
    <<"W","i","n","2","0","0","8","S","P","2","x","6","4">>,
    <<"W","i","n","2","0","0","8","S","P","2","x","8","6">>,
    <<"W","i","n","2","0","1","2","R","2","x","6","4">>,
    <<"W","i","n","2","0","1","2","R","2","x","6","4","_","1","8","3","4","0">>,
    <<"W","i","n","2","0","1","2","x","6","4">>,
    <<"W","i","n","2","0","1","6","x","6","4","_","1","4","3","9","3">>,
    <<"W","i","n","7","S","P","0","x","6","4">>,
    <<"W","i","n","7","S","P","0","x","8","6">>,
    <<"W","i","n","7","S","P","1","x","6","4">>,
    <<"W","i","n","7","S","P","1","x","6","4","_","2","3","4","1","8">>,
    <<"W","i","n","7","S","P","1","x","6","4","_","2","4","0","0","0">>,
    <<"W","i","n","7","S","P","1","x","8","6">>,
    <<"W","i","n","7","S","P","1","x","8","6","_","2","3","4","1","8">>,
    <<"W","i","n","7","S","P","1","x","8","6","_","2","4","0","0","0">>,
    <<"W","i","n","8","1","U","1","x","6","4">>,
    <<"W","i","n","8","1","U","1","x","8","6">>,
    <<"W","i","n","8","S","P","0","x","6","4">>,
    <<"W","i","n","8","S","P","0","x","8","6">>,
    <<"W","i","n","8","S","P","1","x","6","4">>,
    <<"W","i","n","8","S","P","1","x","6","4","_","1","8","3","4","0">>,
    <<"W","i","n","8","S","P","1","x","8","6">>,
    <<"W","i","n","X","P","S","P","1","x","6","4">>,
    <<"W","i","n","X","P","S","P","2","x","6","4">>,
    <<"W","i","n","X","P","S","P","2","x","8","6">>,
    <<"W","i","n","X","P","S","P","3","x","8","6">> }

DEFAULT_OUTPUT_DIR == <<".","/">>
DEFAULT_VOL_INVOCATION == <<"v","o","l",".","p","y">>
MAX_SIMULTANEOUS_WORKERS == 6

----------------------------------------------------------------------------
(* str methods and os.path functions used by the program *)

Truthy(s) == Len(s) > 0

Min(S) == CHOOSE x \in S : \A y \in S : x <= y

\* str.find: least index >= from at which sub occurs in s, 0 when it does not
Find(s, sub, from) ==
  LET hits == { i \in from..(Len(s) - Len(sub) + 1) :
                  SubSeq(s, i, i + Len(sub) - 1) = sub }
  IN IF hits = {} THEN 0 ELSE Min(hits)

Contains(s, sub) == Find(s, sub, 1) # 0

RECURSIVE Split(_, _)
Split(s, sep) ==
  LET i == Find(s, sep, 1)
  IN IF i = 0 THEN <<s>>
     ELSE <<SubSeq(s, 1, i - 1)>> \o Split(SubSeq(s, i + Len(sep), Len(s)), sep)

RECURSIVE Join(_, _)
Join(sep, parts) ==
  IF parts = <<>> THEN <<>>
  ELSE IF Len(parts) = 1 THEN parts[1]
  ELSE parts[1] \o sep \o Join(sep, Tail(parts))

RECURSIVE LStrip(_, _)
LStrip(s, c) == IF s # <<>> /\ Head(s) = c THEN LStrip(Tail(s), c) ELSE s

RECURSIVE RStrip(_, _)
RStrip(s, c) ==
  IF s # <<>> /\ s[Len(s)] = c THEN RStrip(SubSeq(s, 1, Len(s) - 1), c) ELSE s

Strip(s, c) == RStrip(LStrip(s, c), c)

\* the longest prefix of s whose characters are all in ok
RECURSIVE TakeWhile(_, _)
TakeWhile(s, ok) ==
  IF s # <<>> /\ Head(s) \in ok THEN <<Head(s)>> \o TakeWhile(Tail(s), ok) ELSE <<>>

Chars(s) == { s[i] : i \in 1..Len(s) }

Cwd == <<"/","w">>

basename(p) == LET parts == Split(p, <<"/">>) IN parts[Len(parts)]

\* os.path.abspath for paths without "." and ".." components other than "./"
abspath(p) ==
  IF p = <<".", "/">> THEN Cwd
  ELSE IF p # <<>> /\ Head(p) = "/" THEN p
  ELSE Cwd \o <<"/">> \o p

path_join(a, b) ==
  IF b # <<>> /\ Head(b) = "/" THEN b
  ELSE IF a = <<>> \/ a[Len(a)] = "/" THEN a \o b
  ELSE a \o <<"/">> \o b

master_output_directory == abspath(DEFAULT_OUTPUT_DIR)

BASE_PLUGINS ==
  << <<"m","a","l","p","r","o","c","f","i","n","d">>,
     <<"p","s","l","i","s","t">>,
     <<"p","s","s","c","a","n">>,
     <<"p","s","t","r","e","e">>,
     <<"c","m","d","l","i","n","e">>,
     <<"d","l","l","l","i","s","t">>,
     <<"g","e","t","s","i","d","s">>,
     <<"h","a","n","d","l","e","s">>,
     <<"m","u","t","a","n","t","s","c","a","n">>,
     <<"s","v","c","s","c","a","n">>,
     <<"h","o","l","l","o","w","f","i","n","d">>,
     <<"l","d","r","m","o","d","u","l","e","s">>,
     <<"m","a","l","f","i","n","d">>,
     <<"a","p","i","h","o","o","k","s">>,
     <<"d","r","i","v","e","r","i","r","p">>,
     <<"i","d","t">>,
     <<"m","o","d","s","c","a","n">>,
     <<"p","s","x","v","i","e","w">>,
     <<"s","s","d","t">>,
     <<"c","m","d","s","c","a","n">>,
     <<"c","o","n","s","o","l","e","s">>,
     <<"d","l","l","d","u","m","p"," ","-","-","d","u","m","p","-","d","i","r","=">>,
     <<"d","u","m","p","f","i","l","e","s"," ","-","-","d","u","m","p","-","d","i","r","=">>,
     <<"f","i","l","e","s","c","a","n">>,
     <<"m","e","m","d","u","m","p"," ","-","-","d","u","m","p","-","d","i","r","=">>,
     <<"m","o","d","d","u","m","p"," ","-","-","d","u","m","p","-","d","i","r","=">>,
     <<"p","r","o","c","d","u","m","p"," ","-","-","d","u","m","p","-","d","i","r","=">> >>

OLDER_WINDOWS_PLUGINS ==
  << <<"c","o","n","n","e","c","t","i","o","n","s">>,
     <<"c","o","n","n","s","c","a","n">>,
     <<"s","o","c","k","e","t","s">>,
     <<"s","o","c","k","s","c","a","n">> >>

NEWER_WINDOWS_PLUGINS ==
  << <<"n","e","t","s","c","a","n">> >>

----------------------------------------------------------------------------
(* MemoryImage.__init__: resolution of one image *)

HexDigits ==
  {"0","1","2","3","4","5","6","7","8","9",
   "a","b","c","d","e","f","A","B","C","D","E","F"}

RECURSIVE EscapeBytes(_, _)
EscapeBytes(b, q) ==
  IF b = <<>> THEN <<>>
  ELSE LET c == Head(b)
           e == IF c = "\n" THEN <<"\\", "n">>
                ELSE IF c = "\r" THEN <<"\\", "r">>
                ELSE IF c = "\t" THEN <<"\\", "t">>
                ELSE IF c = "\\" THEN <<"\\", "\\">>
                ELSE IF c = q THEN <<"\\", c>>
                ELSE <<c>>
       IN e \o EscapeBytes(Tail(b), q)

\* str(result_bytes): the repr of the bytes object, b'...'
bytes_str(b) ==
  LET q == IF "'" \in Chars(b) /\ "\"" \notin Chars(b) THEN "\"" ELSE "'"
  IN <<"b", q>> \o EscapeBytes(b, q) \o <<q>>

NoMatch == [matched |-> FALSE, group |-> <<>>]

\* re.search('Suggested Profile\(s\) : ([^\n]*)', s)
profiles_search(s) ==
  LET lit == <<"S","u","g","g","e","s","t","e","d"," ","P","r","o","f","i","l","e","(","s",")"," ",":"," ">>
      i == Find(s, lit, 1)
      rest == SubSeq(s, i + Len(lit), Len(s))
  IN IF i = 0 THEN NoMatch
     ELSE [matched |-> TRUE, group |-> TakeWhile(rest, Chars(rest) \ {"\n"})]

\* re.search(r'KDBG : (0x[a-fA-F0-9]*)', s)
kdbg_search(s) ==
  LET lit == <<"K","D","B","G"," ",":"," ","0","x">>
      i == Find(s, lit, 1)
      rest == SubSeq(s, i + Len(lit), Len(s))
  IN IF i = 0 THEN NoMatch
     ELSE [matched |-> TRUE, group |-> <<"0", "x">> \o TakeWhile(rest, HexDigits)]

StartsWith(s, pre) == Len(s) >= Len(pre) /\ SubSeq(s, 1, Len(pre)) = pre

\* line 223 with the first alternative only
OSType_xp_only(p) == StartsWith(p, <<"W","i","n","X","P">>)

\* re.match('(WinXP)|(Win2003)', p) is not None
OSType(p) ==
  \/ StartsWith(p, <<"W","i","n","X","P">>)
  \/ StartsWith(p, <<"W","i","n","2","0","0","3">>)

\* lines 229-231 applied to the lines of the file as well
populate_valid_plugins_filtering_file(profile_, plugins_list_, extract_) ==
  LET valid_plugins == IF plugins_list_.supplied THEN plugins_list_.lines
                       ELSE IF OSType(profile_)
                       THEN BASE_PLUGINS \o OLDER_WINDOWS_PLUGINS
                       ELSE BASE_PLUGINS \o NEWER_WINDOWS_PLUGINS
      NoDump(plugin) == ~Contains(plugin, DUMP_DIR_FLAG)
  IN IF ~extract_ THEN SelectSeq(valid_plugins, NoDump) ELSE valid_plugins

populate_valid_plugins(profile_, plugins_list_, extract_) ==
  IF plugins_list_.supplied THEN plugins_list_.lines
  ELSE LET valid_plugins == IF OSType(profile_)
                            THEN BASE_PLUGINS \o OLDER_WINDOWS_PLUGINS
                            ELSE BASE_PLUGINS \o NEWER_WINDOWS_PLUGINS
           NoDump(plugin) == ~Contains(plugin, DUMP_DIR_FLAG)
       IN IF ~extract_ THEN SelectSeq(valid_plugins, NoDump) ELSE valid_plugins

\* line 179 with `and` for `or`
needs_imageinfo_when_both_missing(profile_, kdbg_) ==
  ~Truthy(profile_) /\ ~Truthy(kdbg_)

\* line 179
needs_imageinfo(profile_, kdbg_) == ~Truthy(profile_) \/ ~Truthy(kdbg_)

\* The constructor, given the result tool of running imageinfo on the image
\* (tool.rc its return code, tool.out its output); tool is read only when
\* the constructor runs imageinfo.  outcome is "ok", "sys.exit" (line 175) or
\* "exception" (an uncaught CalledProcessError or AttributeError).
MemoryImage(invocation, image_path, profile_, kdbg_, master_dir, plugins_list_, extract_, tool) ==
  LET base == basename(image_path)
      parts == Split(base, <<".">>)
      image_name == Join(<<".">>, SubSeq(parts, 1, Len(parts) - 1))
      output_directory == path_join(master_dir, image_name)
      output_path == path_join(output_directory, image_name \o <<"_","i","m","a","g","e","i","n","f","o",".","t","x","t">>)
      result_str == bytes_str(tool.out)
      profiles_regex == profiles_search(result_str)
      kdbg_regex == kdbg_search(result_str)
      auto_profiles == Split(profiles_regex.group, <<",", " ">>)
      auto_kdbg == kdbg_regex.group
      new_profile == IF ~Truthy(profile_) THEN auto_profiles[1] ELSE profile_
      new_kdbg == IF ~Truthy(kdbg_) THEN auto_kdbg ELSE kdbg_
      none == [invocation |-> <<>>, basename |-> <<>>, image_name |-> <<>>,
               abspath |-> <<>>, output_directory |-> <<>>, profile |-> <<>>,
               kdbg |-> <<>>, extract_artifacts |-> FALSE, valid_plugins |-> <<>>]
      Fail(how, calls, written) ==
        [outcome |-> how, calls |-> calls, files |-> written,
         dirs |-> {output_directory}, image |-> none]
  IN IF Truthy(profile_) /\ profile_ \notin SUPPORTED_PROFILES
       THEN Fail("sys.exit", 0, {})
     ELSE IF ~needs_imageinfo(profile_, kdbg_)
       THEN [outcome |-> "ok", calls |-> 0, files |-> {},
             dirs |-> {output_directory},
             image |-> [invocation |-> invocation, basename |-> base,
                        image_name |-> image_name,
                        abspath |-> abspath(image_path),
                        output_directory |-> output_directory,
                        profile |-> profile_, kdbg |-> kdbg_,
                        extract_artifacts |-> extract_,
                        valid_plugins |->
                          populate_valid_plugins(profile_, plugins_list_, extract_)]]
     ELSE IF tool.rc # 0
       THEN Fail("exception", 1, {})
     ELSE IF ~profiles_regex.matched \/ ~kdbg_regex.matched
       THEN Fail("exception", 1, {output_path})
     ELSE [outcome |-> "ok", calls |-> 1, files |-> {output_path},
           dirs |-> {output_directory},
           image |-> [invocation |-> invocation, basename |-> base,
                      image_name |-> image_name,
                      abspath |-> abspath(image_path),
                      output_directory |-> output_directory,
                      profile |-> new_profile, kdbg |-> new_kdbg,
                      extract_artifacts |-> extract_,
                      valid_plugins |->
                        populate_valid_plugins(new_profile, plugins_list_, extract_)]]

----------------------------------------------------------------------------
(* Expansion of an image's plugins into tasks *)

create_dump_dir(plugin_name, image) ==
  path_join(image.output_directory,
            image.image_name \o <<"_">> \o plugin_name \o <<"_","r","e","s","u","l","t","s">>)

\* [plugin_name, plugin_flags, dirs]: dirs are the dump directories created
process_plugin(image, plugin) ==
  LET parts == Split(plugin, <<" ">>)
      plugin_name == Strip(parts[1], "\n")
      flags == [k \in 1..(Len(parts) - 1) |-> Strip(parts[k + 1], "\n")]
      dump_dir_path == create_dump_dir(plugin_name, image)
  IN IF Len(parts) = 1
       THEN [plugin_name |-> Strip(plugin, "\n"), plugin_flags |-> <<>>, dirs |-> {}]
     ELSE [plugin_name |-> plugin_name,
           plugin_flags |-> [k \in 1..Len(flags) |->
                               IF flags[k] = DUMP_DIR_FLAG
                               THEN flags[k] \o dump_dir_path ELSE flags[k]],
           dirs |-> IF \E k \in 1..Len(flags) : flags[k] = DUMP_DIR_FLAG
                    THEN {dump_dir_path} ELSE {}]

\* lines 259-265 with the offset before the profile
generate_future_tasks_kdbg_first(image, first) ==
  [k \in 1..Len(image.valid_plugins) |->
     LET p == process_plugin(image, image.valid_plugins[k])
     IN [id |-> first + k,
         image_basename |-> image.basename,
         plugin |-> p.plugin_name,
         output_path |-> path_join(image.output_directory,
                           image.image_name \o <<"_">> \o p.plugin_name \o <<".","t","x","t">>),
         commandline |-> << image.invocation, <<"-", "f">>, image.abspath,
                            <<"-","-","k","d","b","g","=">> \o image.kdbg,
                            <<"-","-","p","r","o","f","i","l","e","=">> \o image.profile,
                            p.plugin_name >> \o p.plugin_flags]]

\* The Task objects of one image, in generation order; id is the identity of
\* the object (ids first + 1, first + 2, ...), not a field of the program.
generate_future_tasks(image, first) ==
  [k \in 1..Len(image.valid_plugins) |->
     LET p == process_plugin(image, image.valid_plugins[k])
     IN [id |-> first + k,
         image_basename |-> image.basename,
         plugin |-> p.plugin_name,
         output_path |-> path_join(image.output_directory,
                           image.image_name \o <<"_">> \o p.plugin_name \o <<".","t","x","t">>),
         commandline |-> << image.invocation, <<"-", "f">>, image.abspath,
                            <<"-","-","p","r","o","f","i","l","e","=">> \o image.profile,
                            <<"-","-","k","d","b","g","=">> \o image.kdbg,
                            p.plugin_name >> \o p.plugin_flags]]

generated_dirs(image) ==
  UNION { process_plugin(image, image.valid_plugins[k]).dirs :
            k \in 1..Len(image.valid_plugins) }

\* the paths of the calls of create_dump_dir made by generate_future_tasks, in
\* order: one for every flag of every plugin that equals DUMP_DIR_FLAG
RECURSIVE dump_dir_calls(_, _)
dump_dir_calls(image, plugins) ==
  IF plugins = <<>> THEN <<>>
  ELSE LET parts == Split(Head(plugins), <<" ">>)
           plugin_name == Strip(parts[1], "\n")
           marked == { k \in 2..Len(parts) : Strip(parts[k], "\n") = DUMP_DIR_FLAG }
       IN [k \in 1..Cardinality(marked) |-> create_dump_dir(plugin_name, image)]
            \o dump_dir_calls(image, Tail(plugins))

\* lines 168 and 319 without the test
makedirs_needed_always(existing, path) == TRUE

\* lines 168 and 319: os.makedirs is called for a path that does not exist
makedirs_needed(existing, path) == path \notin existing

\* The directories after the creation of paths in order on top of existing;
\* raised when os.makedirs is called for a path that exists (FileExistsError)
RECURSIVE make_dirs(_, _)
make_dirs(existing, paths) ==
  IF paths = <<>> THEN [dirs |-> existing, raised |-> FALSE]
  ELSE IF ~makedirs_needed(existing, Head(paths))
    THEN make_dirs(existing, Tail(paths))
  ELSE IF Head(paths) \in existing
    THEN [dirs |-> existing, raised |-> TRUE]
  ELSE make_dirs(existing \cup {Head(paths)}, Tail(paths))

----------------------------------------------------------------------------
(* Inputs *)

\* outputs of `vol.py -f <image> imageinfo`
OutSeveral == <<"S","u","g","g","e","s","t","e","d"," ","P","r","o","f","i","l","e","(","s",")"," ",":"," ","W","i","n","1","0","x","6","4",","," ","W","i","n","1","0","x","8","6","\n","K","D","B","G"," ",":"," ","0","x","f","f","f","f","f","8","0","0","\n">>
OutOne == <<"S","u","g","g","e","s","t","e","d"," ","P","r","o","f","i","l","e","(","s",")"," ",":"," ","W","i","n","1","0","x","6","4","\n","K","D","B","G"," ",":"," ","0","x","f","f","f","f","f","8","0","0","\n">>
OutNoProfiles == <<"K","D","B","G"," ",":"," ","0","x","f","f","f","f","f","8","0","0","\n">>
OutNoKdbg == <<"S","u","g","g","e","s","t","e","d"," ","P","r","o","f","i","l","e","(","s",")"," ",":"," ","W","i","n","1","0","x","6","4",","," ","W","i","n","1","0","x","8","6","\n">>

ToolResults ==
  { [rc |-> 0, out |-> OutSeveral], [rc |-> 0, out |-> OutOne],
    [rc |-> 0, out |-> OutNoProfiles], [rc |-> 0, out |-> OutNoKdbg],
    [rc |-> 1, out |-> <<>>] }

ProfileArgs == { <<>>, <<"W","i","n","7","S","P","1","x","6","4">>, <<"B","o","g","u","s">> }
KdbgArgs == { <<>>, <<"0","x","1","f">> }

Letters == <<"a", "b", "c", "d", "e", "f", "g", "h", "i", "j", "k", "l">>
ImageFile(i) == <<Letters[i]>> \o <<".","r","a","w">>
ImageFiles(n) == [i \in 1..n |-> ImageFile(i)]

ReadLists ==
  { << <<"p","s","l","i","s","t","\n">> >>,
    << <<"p","s","l","i","s","t","\n">>, <<"n","e","t","s","c","a","n","\n">> >> }

----------------------------------------------------------------------------
(* The main process and the worker processes *)

\* a liveness test that is true of every process that was started
is_alive_once_started(process) == process.state \in {"started", "exited"}

\* Process.is_alive()
is_alive(process) == process.state = "started"

\* line 373 with `and` for `or`
loop_condition_both == Len(tasks) # 0 /\ Len(workers) # 0

\* main, line 373
loop_condition == Len(tasks) # 0 \/ Len(workers) # 0

\* line 380 with `<=` for `<`
can_launch_inclusive ==
  Len(tasks) > 0 /\ Len(workers) <= MAX_SIMULTANEOUS_WORKERS

\* main, line 380
can_launch == Len(tasks) > 0 /\ Len(workers) < MAX_SIMULTANEOUS_WORKERS

\* line 381 reading tasks[-1] without removing it
after_pop_kept(ts) == ts

\* main, line 381: the list left by tasks.pop()
after_pop(ts) == SubSeq(ts, 1, Len(ts) - 1)

\* a loop that goes on to the next image when a constructor fails
after_image_skipping(outcome, k) ==
  IF k = Len(image_files) THEN "while" ELSE "images"

\* main, lines 359-370: where main continues after constructing image k
after_image(outcome, k) ==
  IF outcome # "ok" THEN "done"
  ELSE IF k = Len(image_files) THEN "while" ELSE "images"

\* main, lines 359-370: construct the next image and queue its tasks
ConstructImage ==
  /\ pc = "images"
  /\ \E tool \in ToolResults :
       LET k == Len(imageinfo_calls) + 1
           r == MemoryImage(DEFAULT_VOL_INVOCATION, image_files[k], profile, kdbg,
                            master_output_directory, plugins_list,
                            extract_artifacts, tool)
           \* lines 168-169, before the profile is looked at
           output_made == make_dirs(dirs, <<CHOOSE d \in r.dirs : TRUE>>)
           \* lines 319-320, during the expansion of line 370
           dumps_made == make_dirs(output_made.dirs,
                                   dump_dir_calls(r.image, r.image.valid_plugins))
           outcome == IF output_made.raised THEN "exception"
                      ELSE IF r.outcome # "ok" THEN r.outcome
                      ELSE IF dumps_made.raised THEN "exception" ELSE "ok"
           ran == ~output_made.raised
       IN /\ imageinfo_calls' = Append(imageinfo_calls, IF ran THEN r.calls ELSE 0)
          /\ files' = IF ran THEN files \cup r.files ELSE files
          /\ reports' = Append(reports, IF ran /\ r.files # {} THEN tool.out ELSE <<>>)
          /\ pc' = after_image(outcome, k)
          /\ IF outcome = "ok"
               THEN /\ images' = Append(images, r.image)
                    /\ tasks' = tasks \o generate_future_tasks(r.image, Len(tasks))
                    /\ dirs' = dumps_made.dirs
                    /\ exit_status' = exit_status
               ELSE /\ images' = images
                    /\ tasks' = tasks
                    /\ dirs' = IF r.outcome = "ok" THEN dumps_made.dirs
                               ELSE output_made.dirs
                    /\ exit_status' = IF outcome = "sys.exit" THEN 0 ELSE 1
  /\ UNCHANGED <<exited_before_pass, hung,
                 profile, kdbg, plugins_list, extract_artifacts, image_files,
                 workers, idx, interrupted, popped, started, executed>>

\* main, lines 373-375: the test of the while loop
LoopTest ==
  /\ pc = "while"
  /\ pc' = IF loop_condition THEN "try" ELSE "exit"
  /\ UNCHANGED <<exited_before_pass, hung,
                 profile, kdbg, plugins_list, extract_artifacts, image_files,
                 images, imageinfo_calls, dirs, files, reports, tasks, workers, idx,
                 exit_status, interrupted, popped, started, executed>>

\* main, lines 380-386: take a task and register a worker for it
Launch ==
  /\ pc = "try"
  /\ can_launch
  /\ LET task == tasks[Len(tasks)]
     IN /\ tasks' = after_pop(tasks)
        /\ workers' = Append(workers,
                        [plugin |-> task.plugin,
                         image_basename |-> task.image_basename,
                         process |-> [task |-> task, state |-> "initial"]])
        /\ popped' = Append(popped, task.id)
  /\ pc' = "start"
  /\ UNCHANGED <<exited_before_pass, hung,
                 profile, kdbg, plugins_list, extract_artifacts, image_files,
                 images, imageinfo_calls, dirs, files, reports, idx, exit_status,
                 interrupted, started, executed>>

\* main, line 387: process.start() of the worker just registered
StartProcess ==
  /\ pc = "start"
  /\ LET n == Len(workers)
     IN /\ workers' = [workers EXCEPT ![n].process.state = "started"]
        /\ started' = Append(started, workers[n].process.task.id)
  /\ pc' = "while"
  /\ UNCHANGED <<exited_before_pass, hung,
                 profile, kdbg, plugins_list, extract_artifacts, image_files,
                 images, imageinfo_calls, dirs, files, reports, tasks, idx, exit_status,
                 interrupted, popped, executed>>

\* main, lines 389-392: time.sleep(5), then the poll pass begins
Sleep ==
  /\ pc = "try"
  /\ ~can_launch
  /\ idx' = 0
  /\ exited_before_pass' = { workers[j].process.task.id :
                               j \in { m \in 1..Len(workers) : ~is_alive(workers[m].process) } }
  /\ pc' = "poll"
  /\ UNCHANGED <<hung, profile, kdbg, plugins_list, extract_artifacts, image_files,
                 images, imageinfo_calls, dirs, files, reports, tasks, workers,
                 exit_status, interrupted, popped, started, executed>>

\* a pop() without its index, which removes the last element
RemoveAt_last(s, i) == SubSeq(s, 1, Len(s) - 1)

\* line 398, workers.pop(i), with i counted from 1
RemoveAt(s, i) == SubSeq(s, 1, i - 1) \o SubSeq(s, i + 1, Len(s))

\* lines 392-398 without the removal of line 398
PollWorker_keeping ==
  /\ pc = "poll"
  /\ idx < Len(workers)
  /\ idx' = idx + 1
  /\ UNCHANGED <<exited_before_pass, hung, workers,
                 profile, kdbg, plugins_list, extract_artifacts, image_files,
                 images, imageinfo_calls, dirs, files, reports, tasks, pc, exit_status,
                 interrupted, popped, started, executed>>

\* main, lines 392-398: one iteration of `for i, worker in enumerate(workers)`;
\* idx is i, the list iterator yields the element at offset i of the list as
\* it is now.
PollWorker ==
  /\ pc = "poll"
  /\ idx < Len(workers)
  /\ workers' = IF ~is_alive(workers[idx + 1].process)
                THEN RemoveAt(workers, idx + 1) ELSE workers
  /\ idx' = idx + 1
  /\ exited_before_pass' =
       exited_before_pass \cap { workers'[j].process.task.id : j \in 1..Len(workers') }
  /\ UNCHANGED <<hung,
                 profile, kdbg, plugins_list, extract_artifacts, image_files,
                 images, imageinfo_calls, dirs, files, reports, tasks, pc, exit_status,
                 interrupted, popped, started, executed>>

\* main, line 392: the list iterator is exhausted, back to the loop test
PollEnd ==
  /\ pc = "poll"
  /\ idx >= Len(workers)
  /\ idx' = 0
  /\ exited_before_pass' = {}
  /\ pc' = "while"
  /\ UNCHANGED <<hung, profile, kdbg, plugins_list, extract_artifacts, image_files,
                 images, imageinfo_calls, dirs, files, reports, tasks, workers,
                 exit_status, interrupted, popped, started, executed>>

\* main, lines 400-401: terminate() of every worker in list order.  terminate()
\* of a process that was never started raises AttributeError (its _popen is
\* None), which ends the loop of the handler there.
terminate_workers(ws) ==
  LET bad == { j \in 1..Len(ws) : ws[j].process.state = "initial" }
      stop == IF bad = {} THEN Len(ws) + 1 ELSE Min(bad)
  IN [j \in 1..Len(ws) |->
        IF j < stop /\ ws[j].process.state = "started"
        THEN [ws[j] EXCEPT !.process.state = "terminated"] ELSE ws[j]]

handler_raises(ws) == \E j \in 1..Len(ws) : ws[j].process.state = "initial"

\* A KeyboardInterrupt is raised in the main process during the loop.  Inside
\* the try statement (lines 377-398) the handler of lines 399-402 runs; at
\* lines 373-375 no handler is in scope and the exception ends the process.
KeyboardInterrupt ==
  /\ ~interrupted
  /\ pc \in {"while", "try", "start", "poll"}
  /\ interrupted' = TRUE
  /\ IF pc = "while"
       THEN /\ workers' = workers
            /\ pc' = "done"
            /\ exit_status' \in {1, 130}
       ELSE /\ workers' = terminate_workers(workers)
            /\ IF handler_raises(workers)
                 THEN pc' = "done" /\ exit_status' = 1
                 ELSE pc' = "exit" /\ exit_status' = exit_status
  /\ idx' = 0
  /\ exited_before_pass' = {}
  /\ UNCHANGED <<hung,
                 profile, kdbg, plugins_list, extract_artifacts, image_files,
                 images, imageinfo_calls, dirs, files, reports, tasks, popped,
                 started, executed>>

\* main, lines 404-405: sys.exit() without argument
Finish ==
  /\ pc = "exit"
  /\ pc' = "done"
  /\ exit_status' = 0
  /\ UNCHANGED <<exited_before_pass, hung,
                 profile, kdbg, plugins_list, extract_artifacts, image_files,
                 images, imageinfo_calls, dirs, files, reports, tasks, workers, idx,
                 interrupted, popped, started, executed>>

\* execute_task in the worker process at position j: opens the output file
\* for writing, runs the command line and returns, which ends the process;
\* subprocess.call of a command that never returns does not return either
execute_task(j) ==
  /\ j \in 1..Len(workers)
  /\ workers[j].process.state = "started"
  /\ workers[j].process.task.id \notin hung
  /\ files' = files \cup {workers[j].process.task.output_path}
  /\ workers' = [workers EXCEPT ![j].process.state = "exited"]
  /\ executed' = executed \cup {workers[j].process.task.id}
  /\ UNCHANGED <<exited_before_pass, hung,
                 profile, kdbg, plugins_list, extract_artifacts, image_files,
                 images, imageinfo_calls, dirs, reports, tasks, idx, pc, exit_status,
                 interrupted, popped, started>>

WorkerRuns == \E j \in 1..MAX_SIMULTANEOUS_WORKERS : execute_task(j)

InitCommon ==
  /\ images = <<>>
  /\ imageinfo_calls = <<>>
  /\ dirs = {master_output_directory}
  /\ files = {}
  /\ reports = <<>>
  /\ tasks = <<>>
  /\ workers = <<>>
  /\ idx = 0
  /\ pc = "images"
  /\ exit_status = -1
  /\ interrupted = FALSE
  /\ popped = <<>>
  /\ started = <<>>
  /\ executed = {}
  /\ exited_before_pass = {}

\* Small batches with every combination of the --profile and --kdbg arguments
InitResolve ==
  /\ profile \in ProfileArgs
  /\ kdbg \in KdbgArgs
  /\ plugins_list \in [supplied : {TRUE}, lines : ReadLists]
  /\ extract_artifacts = FALSE
  /\ image_files \in { ImageFiles(n) : n \in 1..MaxImages }
  /\ hung = {}
  /\ InitCommon

\* Batches of more tasks than MAX_SIMULTANEOUS_WORKERS, descriptors given
InitBatch ==
  /\ profile = <<"W","i","n","7","S","P","1","x","6","4">>
  /\ kdbg = <<"0","x","1","f">>
  /\ plugins_list \in [supplied : {TRUE}, lines : ReadLists]
  /\ extract_artifacts = FALSE
  /\ image_files \in { ImageFiles(n) : n \in 1..MaxTasks }
  /\ Len(image_files) * Len(plugins_list.lines) \in
       (MAX_SIMULTANEOUS_WORKERS + 1)..MaxTasks
  /\ hung = {}
  /\ InitCommon

Init == InitResolve \/ InitBatch

Next ==
  \/ ConstructImage
  \/ LoopTest
  \/ Launch
  \/ StartProcess
  \/ Sleep
  \/ PollWorker
  \/ PollEnd
  \/ KeyboardInterrupt
  \/ Finish
  \/ WorkerRuns

Spec == Init /\ [][Next]_vars

\* The main process is not delayed for ever at a step of the loop it can take,
\* and a started worker process runs to its end; a KeyboardInterrupt may or
\* may not come.
SchedulerStep ==
  \/ LoopTest
  \/ Launch
  \/ StartProcess
  \/ Sleep
  \/ PollWorker
  \/ PollEnd
  \/ Finish

\* Batches of one-plugin images that exceed the worker slots
InitLive ==
  /\ profile = <<"W","i","n","7","S","P","1","x","6","4">>
  /\ kdbg = <<"0","x","1","f">>
  /\ plugins_list \in [supplied : {TRUE}, lines : { l \in ReadLists : Len(l) = 1 }]
  /\ extract_artifacts = FALSE
  /\ image_files \in { ImageFiles(n) : n \in 1..MaxLiveTasks }
  /\ Len(image_files) * Len(plugins_list.lines) \in
       (MAX_SIMULTANEOUS_WORKERS + 1)..MaxLiveTasks
  /\ hung = {}
  /\ InitCommon

LiveSpec == InitLive /\ [][Next]_vars /\ WF_vars(SchedulerStep) /\ WF_vars(WorkerRuns)

\* Batches that exceed the worker slots, in which the commands of some tasks,
\* fewer than MAX_SIMULTANEOUS_WORKERS, never return: one or two slots stay
\* usable
InitHang ==
  /\ profile = <<"W","i","n","7","S","P","1","x","6","4">>
  /\ kdbg = <<"0","x","1","f">>
  /\ plugins_list \in [supplied : {TRUE}, lines : ReadLists]
  /\ extract_artifacts = FALSE
  /\ image_files \in { ImageFiles(n) : n \in 1..MaxHangTasks }
  /\ Len(image_files) * Len(plugins_list.lines) \in
       (MAX_SIMULTANEOUS_WORKERS + 1)..MaxHangTasks
  /\ hung \in SUBSET (1..(Len(image_files) * Len(plugins_list.lines)))
  /\ Cardinality(hung) \in (MAX_SIMULTANEOUS_WORKERS - 2)..(MAX_SIMULTANEOUS_WORKERS - 1)
  /\ InitCommon

\* The steps of the loop of lines 373-398; with a worker that never exits the
\* loop condition stays true once that worker is registered
HangStep ==
  \/ LoopTest
  \/ Launch
  \/ StartProcess
  \/ Sleep
  \/ PollWorker
  \/ PollEnd

\* The run without a KeyboardInterrupt
HangNext ==
  \/ ConstructImage
  \/ HangStep
  \/ WorkerRuns

HangSpec == InitHang /\ [][HangNext]_vars /\ WF_vars(HangStep) /\ WF_vars(WorkerRuns)

----------------------------------------------------------------------------
(* Construction of the images and expansion of their tasks alone, lines
   359-370, over a wider range of arguments *)

ExpandProfileArgs == { <<>>, <<"W","i","n","7","S","P","1","x","6","4">>, <<"W","i","n","X","P","S","P","2","x","8","6">>, <<"W","i","n","2","0","0","3","S","P","0","x","8","6">> }

ExpandImageLists ==
  { << <<"a",".","r","a","w">> >>,
    << <<"a",".","r","a","w">>, <<"b",".","r","a","w">> >>,
    << <<"a",".","r","a","w">>, <<"a",".","m","e","m">> >>,
    << <<"d","/","a",".","r","a","w">>, <<"a",".","r","a","w">> >>,
    << <<"a",".","r","a","w">>, <<"a",".","r","a","w">> >> }

ExpandReadLists ==
  { << <<"p","s","l","i","s","t","\n">>, <<"n","e","t","s","c","a","n","\n">> >>,
    << <<"p","r","o","c","d","u","m","p"," ","-","p"," ","-","-","d","u","m","p","-","d","i","r","=","\n">>, <<"n","e","t","s","c","a","n">> >>,
    << <<"p","s","l","i","s","t","\n">>, <<"p","s","l","i","s","t","\n">> >>,
    << <<"p","s","l","i","s","t"," ","\n">> >>,
    << <<"p","s","l","i","s","t"," "," ","-","v","\n">> >>,
    << <<"p","s","l","i","s","t","\t","-","v","\n">> >>,
    << <<"p","s","l","i","s","t","\n">>, <<"\n">> >> }

InitExpand ==
  /\ profile \in ExpandProfileArgs
  /\ kdbg \in KdbgArgs
  /\ plugins_list \in [supplied : {TRUE}, lines : ExpandReadLists]
                        \cup [supplied : {FALSE}, lines : {<<>>}]
  /\ extract_artifacts \in BOOLEAN
  /\ image_files \in ExpandImageLists
  /\ hung = {}
  /\ InitCommon

ExpandNext == ConstructImage

ExpandSpec == InitExpand /\ [][ExpandNext]_vars

----------------------------------------------------------------------------
(* Properties *)

Ids(s) == { s[i].id : i \in 1..Len(s) }
WorkerIds == { workers[j].process.task.id : j \in 1..Len(workers) }
Range(s) == { s[i] : i \in 1..Len(s) }
NoDup(s) == \A i, j \in 1..Len(s) : s[i] = s[j] => i = j

RECURSIVE SumPlugins(_)
SumPlugins(imgs) ==
  IF imgs = <<>> THEN 0 ELSE Len(Head(imgs).valid_plugins) + SumPlugins(Tail(imgs))

\* number of tasks expanded from the images constructed so far
Expanded == SumPlugins(images)

\* a constructor call ended the run instead of returning an image
ResolutionFailed == Len(images) < Len(imageinfo_calls)

\* C1: the active-worker list never holds more than MAX_SIMULTANEOUS_WORKERS
\* entries, at any position of the scheduling loop.
C1_WorkerCap == Len(workers) <= MAX_SIMULTANEOUS_WORKERS

\* the cap is reached while tasks are still pending and the scheduler polls
C1_Witness ==
  /\ Len(workers) = MAX_SIMULTANEOUS_WORKERS
  /\ Len(tasks) > 0
  /\ pc = "poll"

\* C2: once the scheduling loop is entered, a run that is never interrupted
\* reaches the end of the loop with the pending queue empty, the worker list
\* empty and every expanded task started exactly once.
C2_Drained ==
  /\ pc \in {"exit", "done"}
  /\ tasks = <<>>
  /\ workers = <<>>
  /\ Len(started) = Expanded
  /\ Range(started) = 1..Expanded

C2_Terminates == (pc = "while") ~> (interrupted \/ C2_Drained)

\* a run of more tasks than worker slots has ended, drained, uninterrupted
C2_Witness ==
  /\ ~interrupted
  /\ C2_Drained
  /\ Expanded > MAX_SIMULTANEOUS_WORKERS

\* C3: without interruption, the position after the loop is reached only with
\* the pending queue empty, the worker list empty and no started process
\* still running.
C3_ExitOnlyWhenIdle ==
  (pc = "exit" /\ ~interrupted) =>
    /\ tasks = <<>>
    /\ workers = <<>>
    /\ Range(started) \subseteq executed

\* the loop has ended without interruption after more tasks than slots ran
C3_Witness ==
  /\ pc = "exit"
  /\ ~interrupted
  /\ Len(started) > MAX_SIMULTANEOUS_WORKERS

\* C4 as claimed: after a KeyboardInterrupt at any position of the loop, the
\* loop has been left, no worker process of the list is still running and
\* no task is started any more.
C4_InterruptTerminatesAll ==
  interrupted =>
    /\ pc \in {"exit", "done"}
    /\ \A j \in 1..Len(workers) : workers[j].process.state # "started"

\* C5: every task is removed from the queue at most once and started at most
\* once; a removed task is never in the queue again, and no task is in the
\* queue and in the worker list together.
C5_AtMostOnce ==
  /\ NoDup(popped)
  /\ NoDup(started)
  /\ Ids(tasks) \cap Range(popped) = {}
  /\ Ids(tasks) \cap WorkerIds = {}
  /\ Cardinality(WorkerIds) = Len(workers)
  /\ Cardinality(Ids(tasks)) = Len(tasks)
  /\ Range(started) \subseteq Range(popped)
  /\ WorkerIds \subseteq Range(popped)

\* an interrupted run that had started tasks and left others in the queue
C5_Witness ==
  /\ interrupted
  /\ Len(started) >= 2
  /\ Len(tasks) >= 1

\* C6: when the constructor of some image ends the run, no task is ever taken
\* from the queue, no worker is started and no task output file is written,
\* also not for the images constructed before.
C6_AbortBeforeScheduling ==
  ResolutionFailed =>
    /\ pc = "done"
    /\ popped = <<>>
    /\ workers = <<>>
    /\ started = <<>>
    /\ executed = {}
    /\ \A i \in 1..Len(tasks) : tasks[i].output_path \notin files

\* the second image fails after the tasks of the first one were queued
C6_Witness ==
  /\ ResolutionFailed
  /\ Len(images) >= 1
  /\ Len(tasks) >= 1

\* C7 as claimed: a run rejected by the constructor of an image ends with a
\* non-zero exit status.
C7_RejectedExitsNonZero ==
  (ResolutionFailed /\ pc = "done") => exit_status # 0

\* C8 as claimed: a run that passed resolution ends with exit status 0, on
\* normal completion and after a KeyboardInterrupt at any position of the loop.
C8_ExitsZero ==
  (pc = "done" /\ ~ResolutionFailed) => exit_status = 0

ReportField(out, lit) ==
  LET i == Find(out, lit, 1)
      rest == SubSeq(out, i + Len(lit), Len(out))
  IN TakeWhile(rest, Chars(rest) \ {"\n"})

\* C10 as claimed: for an image without given profile whose report has the
\* Suggested Profile(s) line and the KDBG line, the profile is the first entry
\* of the list of that line and a detected offset is the 0x token of the KDBG
\* line.
C10_FirstSuggested ==
  \A i \in 1..Len(images) :
    ~Truthy(profile) =>
      /\ images[i].profile =
           Split(ReportField(reports[i], <<"S","u","g","g","e","s","t","e","d"," ","P","r","o","f","i","l","e","(","s",")"," ",":"," ">>), <<",", " ">>)[1]
      /\ ~Truthy(kdbg) =>
           images[i].kdbg = ReportField(reports[i], <<"K","D","B","G"," ",":"," ">>)

\* C11 as claimed: once a task is queued, the profile of every image is one of
\* SUPPORTED_PROFILES and its offset is not empty, given or detected.
C11_ResolvedDescriptors ==
  Len(tasks) + Len(popped) > 0 =>
    \A i \in 1..Len(images) :
      /\ images[i].profile \in SUPPORTED_PROFILES
      /\ Truthy(images[i].kdbg)

\* C12: with a --readlist file, the plugins of every image are the lines of
\* the file, all of them and in the order of the file, for legacy and other
\* profiles, with and without --extract_artifacts.
C12_ReadlistVerbatim ==
  plugins_list.supplied =>
    \A i \in 1..Len(images) :
      /\ Len(images[i].valid_plugins) = Len(plugins_list.lines)
      /\ \A k \in 1..Len(plugins_list.lines) :
           images[i].valid_plugins[k] = plugins_list.lines[k]

\* a legacy image, no extraction, keeps a line of the file with the marker
C12_Witness ==
  /\ plugins_list.supplied
  /\ ~extract_artifacts
  /\ \E i \in 1..Len(images) :
       /\ SubSeq(images[i].profile, 1, 5) = <<"W","i","n","X","P">>
       /\ \E k \in 1..Len(images[i].valid_plugins) :
            Contains(images[i].valid_plugins[k], DUMP_DIR_FLAG)

Legacy(p) ==
  \/ Len(p) >= 5 /\ SubSeq(p, 1, 5) = <<"W","i","n","X","P">>
  \/ Len(p) >= 7 /\ SubSeq(p, 1, 7) = <<"W","i","n","2","0","0","3">>

\* C13: without a --readlist file, the plugins of an image are the base
\* plugins and, for a profile that starts with WinXP or Win2003, the four
\* plugins of OLDER_WINDOWS_PLUGINS, for any other profile netscan; those with
\* the --dump-dir= marker are among them only with --extract_artifacts.
C13_CataloguePlugins ==
  ~plugins_list.supplied =>
    \A i \in 1..Len(images) :
      LET network == IF Legacy(images[i].profile)
                     THEN Range(OLDER_WINDOWS_PLUGINS)
                     ELSE Range(NEWER_WINDOWS_PLUGINS)
          wanted == { p \in Range(BASE_PLUGINS) \cup network :
                        extract_artifacts \/ ~Contains(p, DUMP_DIR_FLAG) }
      IN /\ Range(images[i].valid_plugins) = wanted
         /\ Len(images[i].valid_plugins) = Cardinality(wanted)

\* a Win2003 image without extraction, and its connscan plugin
C13_Witness ==
  /\ ~plugins_list.supplied
  /\ ~extract_artifacts
  /\ \E i \in 1..Len(images) :
       /\ SubSeq(images[i].profile, 1, 7) = <<"W","i","n","2","0","0","3">>
       /\ <<"c","o","n","n","s","c","a","n">> \in Range(images[i].valid_plugins)

RECURSIVE CountOf(_, _)
CountOf(s, c) ==
  IF s = <<>> THEN 0 ELSE (IF Head(s) = c THEN 1 ELSE 0) + CountOf(Tail(s), c)

\* index in the expansion of the k-th plugin of image i
TaskIndex(i, k) == SumPlugins(SubSeq(images, 1, i - 1)) + k

\* C14: the queue holds one task per plugin of every image, image after image
\* and plugin after plugin; its command line is vol.py, -f, the absolute path,
\* --profile=, --kdbg=, the plugin name and then one argument per flag, and its
\* output path is <image_name>_<plugin name>.txt in the image's directory.
C14_TaskExpansion ==
  popped = <<>> =>
    /\ Len(tasks) = Expanded
    /\ plugins_list.supplied =>
         Len(tasks) = Len(images) * Len(plugins_list.lines)
    /\ \A i \in 1..Len(images) : \A k \in 1..Len(images[i].valid_plugins) :
         LET t == tasks[TaskIndex(i, k)]
             line == images[i].valid_plugins[k]
             name == TakeWhile(line, Chars(line) \ {" ", "\n"})
         IN /\ t.image_basename = images[i].basename
            /\ t.plugin = name
            /\ Len(t.commandline) = 6 + CountOf(line, " ")
            /\ t.commandline[1] = DEFAULT_VOL_INVOCATION
            /\ t.commandline[2] = <<"-","f">>
            /\ t.commandline[3] = Cwd \o <<"/">> \o image_files[i]
            /\ t.commandline[4] = <<"-","-","p","r","o","f","i","l","e","=">> \o images[i].profile
            /\ t.commandline[5] = <<"-","-","k","d","b","g","=">> \o images[i].kdbg
            /\ t.commandline[6] = name
            /\ t.output_path =
                 images[i].output_directory \o <<"/">> \o images[i].image_name
                   \o <<"_">> \o name \o <<".","t","x","t">>

\* two images with given profile and offset and the file of pslist and
\* netscan: four tasks, the third is pslist of the second image
C14_Witness ==
  /\ Len(images) = 2
  /\ Len(tasks) = 4
  /\ profile = <<"W","i","n","7","S","P","1","x","6","4">>
  /\ Truthy(kdbg)
  /\ tasks[3].output_path = <<"/","w","/","b","/","b","_","p","s","l","i","s","t",".","t","x","t">>
  /\ tasks[4].commandline[6] = <<"n","e","t","s","c","a","n">>

\* C15: for every flag of a plugin spec that is the --dump-dir= marker, the
\* directory <image_name>_<plugin name>_results exists under the directory of
\* the image and the argument of the task is the marker followed by its path;
\* creating a directory that exists already does not fail, so that with given
\* profile and offset every constructor returns.
C15_DumpDirectories ==
  /\ \A i \in 1..Len(images) : \A k \in 1..Len(images[i].valid_plugins) :
       LET line == images[i].valid_plugins[k]
           parts == Split(line, <<" ">>)
           name == Strip(parts[1], "\n")
           dump_dir == images[i].output_directory \o <<"/">> \o images[i].image_name
                         \o <<"_">> \o name \o <<"_","r","e","s","u","l","t","s">>
       IN \A j \in 2..Len(parts) :
            Strip(parts[j], "\n") = DUMP_DIR_FLAG =>
              /\ dump_dir \in dirs
              /\ popped = <<>> =>
                   tasks[TaskIndex(i, k)].commandline[5 + j] = DUMP_DIR_FLAG \o dump_dir
  /\ (profile \in SUPPORTED_PROFILES /\ Truthy(kdbg)) => ~ResolutionFailed

\* the same image twice with the spec `procdump -p --dump-dir=`: the directory
\* was created for the first and found for the second
C15_Witness ==
  /\ image_files = << <<"a",".","r","a","w">>, <<"a",".","r","a","w">> >>
  /\ Len(images) = 2
  /\ Len(tasks) = 4
  /\ <<"/","w","/","a","/","a","_","p","r","o","c","d","u","m","p","_","r","e","s","u","l","t","s">> \in dirs
  /\ tasks[3].commandline[8] = <<"-","-","d","u","m","p","-","d","i","r","=","/","w","/","a","/","a","_","p","r","o","c","d","u","m","p","_","r","e","s","u","l","t","s">>

\* C16: no two distinct tasks of a run have the same output path, also for
\* images whose names differ in directory or extension only and for a plugin
\* list that names a plugin twice.
C16_UniqueOutputPaths ==
  \A a, b \in 1..Len(tasks) :
    a # b => tasks[a].output_path # tasks[b].output_path

Whitespace == {" ", "\n", "\t"}

\* C19: the plugin name and the flags of the task of a line of the plugin file
\* are the whitespace-separated tokens of the line: none is empty, none
\* contains a newline or other whitespace, and no task has an empty name.
C19_CleanTokens ==
  plugins_list.supplied =>
    \A a \in 1..Len(tasks) : \A j \in 6..Len(tasks[a].commandline) :
      /\ tasks[a].commandline[j] # <<>>
      /\ Chars(tasks[a].commandline[j]) \cap Whitespace = {}

\* C17: when a poll pass is over, no worker whose process had exited when the
\* pass began is left in the list of active workers.
C17_PassRemovesAllExited ==
  (pc = "poll" /\ idx >= Len(workers)) => exited_before_pass \cap WorkerIds = {}

\* C20: a worker that leaves the list of active workers at a step is one whose
\* process is not alive, and the run does not end uninterrupted while the
\* process of a worker is alive.
C20_OnlyExitedRemoved ==
  /\ [][\A j \in 1..Len(workers) :
          (\A m \in 1..Len(workers') :
             workers'[m].process.task.id # workers[j].process.task.id)
            => ~is_alive(workers[j].process)]_vars
  /\ []((pc \in {"exit", "done"} /\ ~interrupted) =>
          \A j \in 1..Len(workers) : ~is_alive(workers[j].process))

\* a poll pass that began with every slot taken has removed two workers, the
\* second from the list that the first removal shortened, and the process of a
\* worker that is left is alive
C20_Witness ==
  /\ pc = "poll"
  /\ tasks # <<>>
  /\ Len(workers) <= MAX_SIMULTANEOUS_WORKERS - 2
  /\ \E j \in 1..Len(workers) : is_alive(workers[j].process)

\* C18: with fewer than MAX_SIMULTANEOUS_WORKERS tasks whose command never
\* returns, no KeyboardInterrupt, and every other started worker running to
\* its end, every pending task is eventually started.
C18_HungWorkersDoNotHalt ==
  (pc = "while") ~> (tasks = <<>> /\ Range(started) = 1..Expanded)

\* every slot but one is held by a worker that hangs, and the queue was
\* drained through the slot that is left
C18_Witness ==
  /\ Cardinality(hung) = MAX_SIMULTANEOUS_WORKERS - 1
  /\ hung \subseteq WorkerIds
  /\ tasks = <<>>
  /\ Len(started) = Expanded
  /\ Expanded > MAX_SIMULTANEOUS_WORKERS

====
